---- MODULE Spec2Model ----
(***************************************************************************)
(* Model of the development file servers server.py, server2.py and         *)
(* https-server.py: content-type resolution, response-header policy, port  *)
(* reclamation, TLS start-up validation and the single-threaded serve loop *)
(* with its interrupt-driven shutdown.                                     *)
(***************************************************************************)
EXTENDS Integers, Sequences, FiniteSets, TLC

(* ------------------------------ bounds -------------------------------- *)
\* longest path string handed to the content-type resolver
MaxLen == 5
\* processes on the host that may hold a socket on the port
NumProcs == 2
\* clients that may connect to the server
NumClients == 2
\* chunks a response body is streamed in
BodyLen == 2

(* ----------------------- content-type resolution ---------------------- *)
\* characters a path is built from: separator, extension separator, the
\* letters of "js"/"mjs" and one upper-case letter
Alphabet == {"/", ".", "j", "s", "m", "J"}

Paths == UNION {[1..n -> Alphabet] : n \in 0..MaxLen}

Variants == {"server", "server2", "https"}

\* str.lower() on one character
LowerChar(c) == CASE c = "J" -> "j"
                  [] c = "S" -> "s"
                  [] c = "M" -> "m"
                  [] OTHER -> c

\* str.lower()
Lower(s) == [i \in 1..Len(s) |-> LowerChar(s[i])]

\* str.rfind(ch), 1-based; 0 when ch does not occur (Python: -1)
RFind(p, ch) == IF \E i \in 1..Len(p) : p[i] = ch
                THEN CHOOSE i \in 1..Len(p) :
                        p[i] = ch /\ \A k \in (i+1)..Len(p) : p[k] # ch
                ELSE 0

\* os.path.splitext(path)[1]: the extension with its dot; a final segment
\* made of leading dots only up to the last dot has no extension
splitext(p) ==
    LET sepIndex == RFind(p, "/")
        dotIndex == RFind(p, ".")
    IN  IF /\ dotIndex > sepIndex
           /\ \E k \in (sepIndex+1)..(dotIndex-1) : p[k] # "."
        THEN SubSeq(p, dotIndex, Len(p))
        ELSE <<>>

\* JSHTTPRequestHandler.extensions_map
extensions_map ==
    (<<".", "h", "t", "m", "l">> :> "text/html") @@
    (<<".", "j", "s">> :> "application/javascript") @@
    (<<".", "m", "j", "s">> :> "application/javascript") @@
    (<<".", "j", "s", "o", "n">> :> "application/json") @@
    (<<".", "c", "s", "s">> :> "text/css") @@
    (<<".", "p", "n", "g">> :> "image/png") @@
    (<<".", "j", "p", "g">> :> "image/jpeg") @@
    (<<".", "s", "v", "g">> :> "image/svg+xml") @@
    (<<".", "w", "a", "s", "m">> :> "application/wasm") @@
    (<<>> :> "application/octet-stream")

\* a plausible slip: the lower-casing retry is left out
guess_type_NoLower(p) ==
    LET ext == splitext(p)
    IN  IF ext \in DOMAIN extensions_map THEN extensions_map[ext]
        ELSE extensions_map[<<>>]

\* JSHTTPRequestHandler.guess_type
guess_type(p) ==
    LET ext == splitext(p)
    IN  IF ext \in DOMAIN extensions_map THEN extensions_map[ext]
        ELSE IF Lower(ext) \in DOMAIN extensions_map
             THEN extensions_map[Lower(ext)]
             ELSE extensions_map[<<>>]

\* what the host platform's MIME database holds for .js and .mjs: the three
\* databases met in practice (no .mjs entry; both application/javascript;
\* both text/javascript)
PlatformDbs ==
    { (<<".", "j", "s">> :> "application/javascript"),
      (<<".", "j", "s">> :> "application/javascript") @@
          (<<".", "m", "j", "s">> :> "application/javascript"),
      (<<".", "j", "s">> :> "text/javascript") @@
          (<<".", "m", "j", "s">> :> "text/javascript") }

\* mimetypes.add_type('application/javascript', '.js' / '.mjs') on top of
\* the platform database
add_type(db) ==
    (<<".", "j", "s">> :> "application/javascript") @@
    (<<".", "m", "j", "s">> :> "application/javascript") @@ db

\* the MIME database the handler of each variant consults
types_map(v, db) == IF v = "server" THEN add_type(db) ELSE db

\* the handler's Content-Type for a path: server2 overrides guess_type;
\* server.py and https-server.py inherit SimpleHTTPRequestHandler.guess_type,
\* which ends in a case-insensitive lookup in the MIME database and the
\* application/octet-stream default
ContentType(v, db, p) ==
    IF v = "server2" THEN guess_type(p)
    ELSE LET ext == Lower(splitext(p))
             tm == types_map(v, db)
         IN  IF ext \in DOMAIN tm THEN tm[ext] ELSE "application/octet-stream"

(* --------------------------- host and process -------------------------- *)
Pids == 1..NumProcs

Clients == 1..NumClients

\* a token of the lookup utility's output that is not a process identifier
JUNK == 0

\* states of a host process with respect to the port: not there (never
\* started, or exited); listening on it (own / another user's); merely
\* connected to it; a listener that has been sent SIGTERM and has not
\* exited yet
ProcStates == {"none", "listener", "foreign", "client", "dying"}

\* the process states that keep the port's listening socket open
Listening == {"listener", "foreign", "dying"}

\* the states in which a process has a socket on the port, which is what
\* `lsof -ti :PORT` selects
OnPort == Listening \cup {"client"}

\* subclasses of Exception the start-up code can meet
ExceptionClasses == {"FileNotFoundError", "ValueError", "ProcessLookupError",
                     "PermissionError", "OSError", "SSLError"}

VARIABLES variant, path, platform, ctype,
          pc,          \* position of the main thread
          endedBy,     \* what ended the process and where: [exc, at]
          exitStatus,  \* exit status, -1 while the process runs
          sock,        \* the listening socket: none, listening, tls, closed
          everSocket,  \* a listening socket was created at some point
          certExists, keyExists,
          proc,        \* host processes, by pid
          linger,      \* a closed listener's socket lingers on the port
          hadPrior,    \* a prior listener or lingering socket at start
          lookup,      \* the lsof run: [st, rc, out], st "unrun", "absent" or "ran"
          idx,         \* position of the kill loop in the lookup's output
          signalled,   \* pids sent SIGTERM by the reclaimer
          fuser,       \* the fallback: "unrun", "absent" or "ran"
          conn,        \* client connections
          cur,         \* connection the serve loop is handling, 0 if none
          interrupted  \* an interrupt signal was delivered

mimeVars == <<variant, path, platform, ctype>>

lifeVars == <<pc, endedBy, exitStatus, sock, everSocket, certExists, keyExists,
             proc, linger, hadPrior, lookup, idx, signalled, fuser, conn, cur,
             interrupted>>

vars == <<variant, path, platform, ctype, pc, endedBy, exitStatus, sock,
          everSocket, certExists, keyExists, proc, linger, hadPrior, lookup,
          idx, signalled, fuser, conn, cur, interrupted>>


(* ------------------------- exceptions and handlers --------------------- *)
\* a plausible slip: the fallback's handler names one exception class
InnerCatches_Narrow(e) == e = "CalledProcessError"

\* `except:` around the fuser call catches everything, interrupts included
InnerCatches(e) == TRUE

\* `except Exception as e:` around the lookup and the kill loop
OuterCatches(e) == e \in ExceptionClasses

\* `except KeyboardInterrupt:` around serve_forever()
ServeCatches(e) == e = "KeyboardInterrupt"

\* the process has not ended
Running == [exc |-> "none", at |-> "none"]

\* exit status of a process ended by an uncaught exception
UncaughtStatus(e) == IF e = "KeyboardInterrupt" THEN 130 ELSE 1

\* where control goes when exception e is raised at position at: the
\* position after the handler that catches it, or "exited" when none does
Unwind(at, e) ==
    IF at \in {"lsof", "kill"} /\ OuterCatches(e) THEN "fuser"
    ELSE IF at = "fuser" /\ InnerCatches(e) THEN "bind"
    ELSE IF at = "serving" /\ ServeCatches(e) THEN "stopped"
    ELSE "exited"

\* the process-level effect of raising e at the current position; the
\* socket, if open, is closed when the process ends
Raise(e) ==
    LET to == Unwind(pc, e)
    IN  /\ pc' = to
        /\ IF to = "exited"
           THEN /\ endedBy' = [exc |-> e, at |-> pc]
                /\ exitStatus' = UncaughtStatus(e)
                /\ sock' = IF sock = "none" THEN "none" ELSE "closed"
           ELSE UNCHANGED <<endedBy, exitStatus, sock>>

(* ------------------------------ port reclaimer ------------------------- *)
\* the pids with a socket on the port, in ascending order
RECURSIVE PidSeq(_, _)
PidSeq(S, from) ==
    IF from > NumProcs THEN <<>>
    ELSE IF from \in S THEN <<from>> \o PidSeq(S, from + 1)
         ELSE PidSeq(S, from + 1)

Holders == {p \in Pids : proc[p] \in OnPort}

\* what the lookup may print: the holders, nothing, or the holders with a
\* token that is no number before or after them
LsofOutputs ==
    LET h == PidSeq(Holders, 1)
    IN  {h, <<>>, <<JUNK>> \o h, h \o <<JUNK>>}

\* subprocess.run(['lsof', '-ti', ...]) and the test of its result
Lsof ==
    /\ pc = "lsof"
    /\ \/ /\ lookup' = [st |-> "absent", rc |-> 0, out |-> <<>>]
          /\ Raise("FileNotFoundError")
          /\ UNCHANGED idx
       \/ \E rc \in {0, 1}, out \in LsofOutputs :
            /\ lookup' = [st |-> "ran", rc |-> rc, out |-> out]
            /\ IF rc = 0 /\ out # <<>>
               THEN pc' = "kill" /\ idx' = 1
               ELSE pc' = "bind" /\ idx' = 0
            /\ UNCHANGED <<endedBy, exitStatus, sock>>
    /\ UNCHANGED <<mimeVars, everSocket, certExists, keyExists, proc, linger,
                   hadPrior, signalled, fuser, conn, cur, interrupted>>

\* the outcome of os.kill(int(tok), SIGTERM): the exception raised, or "ok"
KillOutcome(tok) ==
    IF tok = JUNK THEN "ValueError"
    ELSE IF proc[tok] = "none" THEN "ProcessLookupError"
    ELSE IF proc[tok] = "foreign" THEN "PermissionError"
    ELSE "ok"

\* a process that is delivered SIGTERM: a listener exits later, a client
\* at once
Termed(st) == IF st = "listener" THEN "dying"
              ELSE IF st = "client" THEN "none" ELSE st

\* one iteration of `for pid in pids: os.kill(int(pid), signal.SIGTERM)`
Kill ==
    /\ pc = "kill"
    /\ LET tok == lookup.out[idx]
           res == KillOutcome(tok)
       IN  IF res = "ok"
           THEN /\ proc' = [proc EXCEPT ![tok] = Termed(proc[tok])]
                /\ signalled' = signalled \cup {tok}
                /\ IF idx < Len(lookup.out)
                   THEN idx' = idx + 1 /\ pc' = "kill"
                   ELSE idx' = 0 /\ pc' = "bind"
                /\ UNCHANGED <<endedBy, exitStatus, sock>>
           ELSE /\ Raise(res)
                /\ idx' = 0
                /\ UNCHANGED <<proc, signalled>>
    /\ UNCHANGED <<mimeVars, everSocket, certExists, keyExists, linger,
                   hadPrior, lookup, fuser, conn, cur, interrupted>>

\* subprocess.run(['fuser', '-k', ...]): kills the user's own processes on
\* the port, or is not there to run
Fuser ==
    /\ pc = "fuser"
    /\ \/ /\ fuser' = "ran"
          /\ proc' = [p \in Pids |->
                        IF proc[p] \in {"listener", "client", "dying"}
                        THEN "none" ELSE proc[p]]
          /\ linger' = (linger \/ \E p \in Pids : proc[p] \in {"listener", "dying"})
          /\ pc' = "bind"
          /\ UNCHANGED <<endedBy, exitStatus, sock>>
       \/ /\ fuser' = "absent"
          /\ Raise("FileNotFoundError")
          /\ UNCHANGED <<proc, linger>>
    /\ UNCHANGED <<mimeVars, everSocket, certExists, keyExists, hadPrior,
                   lookup, idx, signalled, conn, cur, interrupted>>

\* a host process exits, by itself or because of a signal sent earlier
ProcExit(p) ==
    /\ proc[p] \in OnPort
    /\ proc' = [proc EXCEPT ![p] = "none"]
    /\ linger' = (linger \/ proc[p] \in Listening)
    /\ UNCHANGED <<mimeVars, pc, endedBy, exitStatus, sock, everSocket,
                   certExists, keyExists, hadPrior, lookup, idx, signalled,
                   fuser, conn, cur, interrupted>>

(* ------------------------------- start-up ------------------------------ *)
\* a plausible slip: start-up is refused only when both files are missing
CertMaterialMissing_Both == ~certExists /\ ~keyExists

\* `not os.path.exists('cert.pem') or not os.path.exists('key.pem')`
CertMaterialMissing == ~certExists \/ ~keyExists

\* https-server.py: the certificate check, with sys.exit(1) when it fails
CertCheck ==
    /\ pc = "certcheck"
    /\ IF CertMaterialMissing
       THEN /\ pc' = "exited"
            /\ endedBy' = [exc |-> "SystemExit", at |-> pc]
            /\ exitStatus' = 1
       ELSE /\ pc' = "bind"
            /\ UNCHANGED <<endedBy, exitStatus>>
    /\ UNCHANGED <<mimeVars, sock, everSocket, certExists, keyExists, proc,
                   linger, hadPrior, lookup, idx, signalled, fuser, conn, cur,
                   interrupted>>

\* allow_reuse_address: set by server.py and server2.py, and HTTPServer's
\* own default in https-server.py
allow_reuse_address == TRUE

\* bind() succeeds when no process listens on the port and, unless the
\* address may be reused, no closed listener's socket lingers on it
BindSucceeds ==
    /\ \A p \in Pids : proc[p] \notin Listening
    /\ allow_reuse_address \/ ~linger

\* the reclaimer's record before it has run, and again once its caller
\* has moved on: the record is consumed once and not retained
NoLookup == [st |-> "unrun", rc |-> 0, out |-> <<>>]

\* the server's constructor: socket, bind, listen; a failed bind raises
Bind ==
    /\ pc = "bind"
    /\ IF BindSucceeds
       THEN /\ sock' = "listening"
            /\ everSocket' = TRUE
            /\ pc' = IF variant = "https" THEN "loadcert" ELSE "banner"
            /\ UNCHANGED <<endedBy, exitStatus>>
       ELSE /\ Raise("OSError")
            /\ UNCHANGED everSocket
    /\ lookup' = NoLookup
    /\ signalled' = {}
    /\ fuser' = "unrun"
    /\ UNCHANGED <<mimeVars, certExists, keyExists, proc, linger, hadPrior,
                   idx, conn, cur, interrupted>>

\* https-server.py: load_cert_chain and wrap_socket; the files may be
\* missing or hold no usable certificate
LoadCert ==
    /\ pc = "loadcert"
    /\ \E usable \in BOOLEAN :
         IF usable /\ certExists /\ keyExists
         THEN /\ sock' = "tls"
              /\ pc' = "banner"
              /\ UNCHANGED <<endedBy, exitStatus>>
         ELSE Raise("SSLError")
    /\ UNCHANGED <<mimeVars, everSocket, certExists, keyExists, proc, linger,
                   hadPrior, lookup, idx, signalled, fuser, conn, cur,
                   interrupted>>

\* the start-up banner, printed before the try block around serve_forever
Banner ==
    /\ pc = "banner"
    /\ pc' = "serving"
    /\ UNCHANGED <<mimeVars, endedBy, exitStatus, sock, everSocket, certExists,
                   keyExists, proc, linger, hadPrior, lookup, idx, signalled,
                   fuser, conn, cur, interrupted>>

(* ------------------------------ serve loop ----------------------------- *)
NoConn == [st |-> "none", status |-> 0, hdrs |-> {}, sent |-> 0]

\* a connection closed before its response was delivered in full: the
\* request context is destroyed with it
Closed(how) == [st |-> how, status |-> 0, hdrs |-> {}, sent |-> 0]

\* the headers MyHTTPRequestHandler / JSHTTPRequestHandler.end_headers add
PolicyHeaders ==
    { <<"Access-Control-Allow-Origin", "*">>,
      <<"Cache-Control", "no-cache, no-store, must-revalidate">>,
      <<"Pragma", "no-cache">>,
      <<"Expires", "0">> }

\* the headers the static-file responder sends with any response
ResponderHeaders == { <<"Server", "SimpleHTTP">> }

\* end_headers of the handler class each variant passes to its server:
\* https-server.py passes the plain SimpleHTTPRequestHandler
end_headers(v, h) ==
    IF v \in {"server", "server2"} THEN h \cup PolicyHeaders ELSE h

\* the status the responder answers a request with
StatusOf(kind) == CASE kind = "existing" -> 200
                    [] kind = "missing" -> 404
                    [] OTHER -> 400

\* a client connects: the connection waits in the listen queue
Connect(c) ==
    /\ sock \in {"listening", "tls"}
    /\ conn[c].st = "none"
    /\ conn' = [conn EXCEPT ![c].st = "queued"]
    /\ UNCHANGED <<mimeVars, pc, endedBy, exitStatus, sock, everSocket,
                   certExists, keyExists, proc, linger, hadPrior, lookup, idx,
                   signalled, fuser, cur, interrupted>>

\* serve_forever -> get_request: the one thread accepts a connection and
\* handles it before it returns to the loop; on the wrapped socket accept()
\* also performs the TLS handshake
Accept(c) ==
    /\ pc = "serving"
    /\ cur = 0
    /\ conn[c].st = "queued"
    /\ cur' = c
    /\ conn' = [conn EXCEPT ![c].st =
                   IF variant = "https" THEN "handshake" ELSE "reading"]
    /\ UNCHANGED <<mimeVars, pc, endedBy, exitStatus, sock, everSocket,
                   certExists, keyExists, proc, linger, hadPrior, lookup, idx,
                   signalled, fuser, interrupted>>

\* the client's side of the TLS handshake arrives: it completes, or fails
\* and the connection is given up (`except OSError: return`)
Handshake(c) ==
    /\ pc = "serving"
    /\ cur = c
    /\ conn[c].st = "handshake"
    /\ \E good \in BOOLEAN :
         IF good
         THEN conn' = [conn EXCEPT ![c].st = "reading"] /\ cur' = c
         ELSE conn' = [conn EXCEPT ![c] = Closed("dropped")] /\ cur' = 0
    /\ UNCHANGED <<mimeVars, pc, endedBy, exitStatus, sock, everSocket,
                   certExists, keyExists, proc, linger, hadPrior, lookup, idx,
                   signalled, fuser, interrupted>>

\* the client's request arrives: send_head / send_error build the response
\* and end_headers finalizes its headers
Request(c) ==
    /\ pc = "serving"
    /\ cur = c
    /\ conn[c].st = "reading"
    /\ \E kind \in {"existing", "missing", "malformed"} :
         conn' = [conn EXCEPT ![c] =
                     [st |-> "streaming", status |-> StatusOf(kind),
                      hdrs |-> end_headers(variant, ResponderHeaders),
                      sent |-> 0]]
    /\ UNCHANGED <<mimeVars, pc, endedBy, exitStatus, sock, everSocket,
                   certExists, keyExists, proc, linger, hadPrior, lookup, idx,
                   signalled, fuser, cur, interrupted>>

\* the client takes the next chunk of the body; after the last one the
\* connection is shut down and the loop is free again
Stream(c) ==
    /\ pc = "serving"
    /\ cur = c
    /\ conn[c].st = "streaming"
    /\ IF conn[c].sent + 1 < BodyLen
       THEN conn' = [conn EXCEPT ![c].sent = @ + 1] /\ cur' = c
       ELSE conn' = [conn EXCEPT ![c].sent = @ + 1, ![c].st = "complete"]
            /\ cur' = 0
    /\ UNCHANGED <<mimeVars, pc, endedBy, exitStatus, sock, everSocket,
                   certExists, keyExists, proc, linger, hadPrior, lookup, idx,
                   signalled, fuser, interrupted>>

\* the client goes away while its connection is being handled
ClientAbort(c) ==
    /\ pc = "serving"
    /\ cur = c
    /\ conn[c].st \in {"handshake", "reading", "streaming"}
    /\ conn' = [conn EXCEPT ![c] = Closed("dropped")]
    /\ cur' = 0
    /\ UNCHANGED <<mimeVars, pc, endedBy, exitStatus, sock, everSocket,
                   certExists, keyExists, proc, linger, hadPrior, lookup, idx,
                   signalled, fuser, interrupted>>

(* ------------------------------- interrupt ----------------------------- *)
\* what becomes of the connection being handled when KeyboardInterrupt
\* unwinds through it: `except: self.shutdown_request(request); raise`
Unwound(cn) ==
    IF cn.st = "streaming" THEN Closed("truncated") ELSE Closed("dropped")

\* SIGINT: KeyboardInterrupt is raised in the main thread where it stands
Interrupt ==
    /\ pc # "exited"
    /\ interrupted' = TRUE
    /\ Raise("KeyboardInterrupt")
    /\ IF cur # 0
       THEN conn' = [conn EXCEPT ![cur] = Unwound(conn[cur])] /\ cur' = 0
       ELSE UNCHANGED <<conn, cur>>
    /\ idx' = 0
    /\ UNCHANGED <<mimeVars, everSocket, certExists, keyExists, proc, linger,
                   hadPrior, lookup, signalled, fuser>>

\* the KeyboardInterrupt handler: the message, the end of the with block
\* (server.py, server2.py) or sys.exit(0) (https-server.py)
Stop ==
    /\ pc = "stopped"
    /\ pc' = "exited"
    /\ endedBy' = [exc |-> "none", at |-> pc]
    /\ exitStatus' = 0
    /\ sock' = "closed"
    /\ UNCHANGED <<mimeVars, everSocket, certExists, keyExists, proc, linger,
                   hadPrior, lookup, idx, signalled, fuser, conn, cur,
                   interrupted>>

(* ---------------------------- specifications --------------------------- *)
\* at most one process listens on a port
HostStates ==
    {f \in [Pids -> ProcStates \ {"dying"}] :
        Cardinality({p \in Pids : f[p] \in Listening}) <= 1}

\* the process as it starts, on a host in any state
Init ==
    /\ variant \in Variants
    /\ path = <<>>
    /\ platform = (<<".", "j", "s">> :> "application/javascript")
    /\ ctype = "unresolved"
    /\ pc = IF variant = "https" THEN "certcheck" ELSE "lsof"
    /\ endedBy = Running
    /\ exitStatus = -1
    /\ sock = "none"
    /\ everSocket = FALSE
    /\ certExists \in (IF variant = "https" THEN BOOLEAN ELSE {FALSE})
    /\ keyExists \in (IF variant = "https" THEN BOOLEAN ELSE {FALSE})
    /\ proc \in HostStates
    /\ linger \in BOOLEAN
    /\ hadPrior = (linger \/ \E p \in Pids : proc[p] = "listener")
    /\ lookup = NoLookup
    /\ idx = 0
    /\ signalled = {}
    /\ fuser = "unrun"
    /\ conn = [c \in Clients |-> NoConn]
    /\ cur = 0
    /\ interrupted = FALSE

Next ==
    \/ Lsof
    \/ Kill
    \/ Fuser
    \/ \E p \in Pids : ProcExit(p)
    \/ CertCheck
    \/ Bind
    \/ LoadCert
    \/ Banner
    \/ \E c \in Clients : Connect(c)
    \/ \E c \in Clients : Accept(c)
    \/ \E c \in Clients : Handshake(c)
    \/ \E c \in Clients : Request(c)
    \/ \E c \in Clients : Stream(c)
    \/ \E c \in Clients : ClientAbort(c)
    \/ Interrupt
    \/ Stop

Spec == Init /\ [][Next]_vars

MimeInit ==
    /\ variant \in Variants
    /\ path \in Paths
    /\ platform \in PlatformDbs
    /\ ctype = "unresolved"
    /\ pc = "serving"
    /\ endedBy = Running
    /\ exitStatus = -1
    /\ sock = "listening"
    /\ everSocket = TRUE
    /\ certExists = (variant = "https")
    /\ keyExists = (variant = "https")
    /\ proc = [p \in Pids |-> "none"]
    /\ linger = FALSE
    /\ hadPrior = FALSE
    /\ lookup = NoLookup
    /\ idx = 0
    /\ signalled = {}
    /\ fuser = "unrun"
    /\ conn = [c \in Clients |-> NoConn]
    /\ cur = 0
    /\ interrupted = FALSE

\* send_head: self.guess_type(path) for the file being served
Resolve ==
    /\ ctype = "unresolved"
    /\ ctype' = ContentType(variant, platform, path)
    /\ UNCHANGED <<variant, path, platform, lifeVars>>

MimeNext == Resolve

SpecMime == MimeInit /\ [][MimeNext]_vars

(* ------------------------------- claims -------------------------------- *)
JsExts == { <<".", "j", "s">>, <<".", "m", "j", "s">> }

Resolved == ctype # "unresolved"

\* the final path segment: what follows the last separator
Segment(p) ==
    LET k == CHOOSE k \in 0..Len(p) :
                 /\ k = 0 \/ p[k] = "/"
                 /\ \A i \in (k+1)..Len(p) : p[i] # "/"
    IN  SubSeq(p, k + 1, Len(p))

DotsIn(seg) == {i \in 1..Len(seg) : seg[i] = "."}

LastDot(seg) == CHOOSE i \in DotsIn(seg) : \A k \in DotsIn(seg) : k <= i

\* the reference's extension: the substring after the last dot of the final
\* segment, empty when the segment has no dot
RefExt(p) ==
    LET seg == Segment(p)
    IN  IF DotsIn(seg) = {} THEN <<>>
        ELSE SubSeq(seg, LastDot(seg) + 1, Len(seg))

\* the same, except that a segment whose last dot has only dots before it
\* (a dot-file name) has no extension
RefExtDotFile(p) ==
    LET seg == Segment(p)
    IN  IF DotsIn(seg) = {} \/ \A i \in 1..(LastDot(seg) - 1) : seg[i] = "."
        THEN <<>>
        ELSE SubSeq(seg, LastDot(seg) + 1, Len(seg))

\* the reference's lookup: the entry of the extension as written, else of
\* its lower-case form, else application/octet-stream
RefLookup(e) ==
    LET key == IF e = <<>> THEN <<>> ELSE <<".">> \o e
    IN  IF key \in DOMAIN extensions_map THEN extensions_map[key]
        ELSE IF Lower(key) \in DOMAIN extensions_map
             THEN extensions_map[Lower(key)]
             ELSE "application/octet-stream"

\* C6 (as stated): in every variant a served file whose extension is .js or
\* .mjs, in any letter case, gets Content-Type application/javascript,
\* whatever the platform's MIME database holds.
C6_JsIsApplicationJavascript ==
    (Resolved /\ Lower(splitext(path)) \in JsExts)
        => ctype = "application/javascript"

\* C9 (as stated): for every path, server2's guess_type returns what the
\* reference returns with the extension taken as the substring after the
\* last dot of the final segment.
C9_MatchesReference ==
    (Resolved /\ variant = "server2") => ctype = RefLookup(RefExt(path))

\* C9 (amended): for every path, server2's guess_type returns what the
\* reference returns when a final segment whose last dot is preceded only by
\* dots counts as having no extension; a path without extension yields
\* application/octet-stream, an extension .js or .mjs in any case yields
\* application/javascript, and the result is always a type of the table.
C9_MatchesDotFileReference ==
    (Resolved /\ variant = "server2") =>
        /\ ctype = RefLookup(RefExtDotFile(path))
        /\ RefExtDotFile(path) = <<>> => ctype = "application/octet-stream"
        /\ Lower(<<".">> \o RefExtDotFile(path)) \in JsExts
              => ctype = "application/javascript"
        /\ \E k \in DOMAIN extensions_map : ctype = extensions_map[k]

\* C9 witness: server2 has resolved a dot-file path such as "/.js", where
\* the two readings of "extension" differ, to application/octet-stream
C9_DotFileResolved ==
    /\ Resolved
    /\ variant = "server2"
    /\ Lower(<<".">> \o RefExt(path)) \in JsExts
    /\ RefExtDotFile(path) = <<>>
    /\ ctype = "application/octet-stream"

\* C1 (as stated): in every variant, every response whose headers have been
\* finalized, whatever its status, carries Access-Control-Allow-Origin: *
\* and Cache-Control: no-cache, no-store, must-revalidate.
C1_PolicyHeadersOnEveryResponse ==
    \A c \in Clients :
        conn[c].st \in {"streaming", "complete"} =>
            /\ <<"Access-Control-Allow-Origin", "*">> \in conn[c].hdrs
            /\ <<"Cache-Control", "no-cache, no-store, must-revalidate">>
                  \in conn[c].hdrs

\* C2 (as stated): an interrupt that arrives while a response is mid-stream
\* lets it finish before the socket is closed; no response is ever cut
\* short by the interrupt.
C2_NoResponseTruncated ==
    \A c \in Clients : conn[c].st # "truncated"

\* C3 (as stated): while one client is stalled in its handshake, request or
\* response body, the server can still accept any other client that has
\* connected.
C3_StalledClientBlocksNobody ==
    \A c, d \in Clients :
        (/\ c # d
         /\ pc = "serving"
         /\ conn[d].st \in {"handshake", "reading", "streaming"}
         /\ conn[c].st = "queued")
            => ENABLED Accept(c)

\* the lookup ran, succeeded, and every process it named has been signalled
ReclaimWorked ==
    /\ lookup.st = "ran"
    /\ lookup.rc = 0
    /\ lookup.out # <<>>
    /\ signalled = {lookup.out[i] : i \in 1..Len(lookup.out)}
    /\ fuser = "unrun"

\* C4 (as stated, in its most favourable case): with a prior listener or a
\* lingering socket on the port at start, the new instance's bind succeeds,
\* even when the prior process has not exited yet; here the reclaimer has
\* found and signalled every process on the port.
C4_RebindSucceeds ==
    (pc = "bind" /\ hadPrior /\ ReclaimWorked /\ ~interrupted) => BindSucceeds

\* C5: the TLS variant started without cert.pem or without key.pem never
\* creates a listening socket and never gets past the certificate check;
\* when it has exited, its status is not zero.
C5_NoSocketWithoutCertMaterial ==
    (variant = "https" /\ (~certExists \/ ~keyExists)) =>
        /\ sock = "none"
        /\ ~everSocket
        /\ pc \in {"certcheck", "exited"}
        /\ pc = "exited" => exitStatus # 0

\* C5 witness: with cert.pem present and key.pem absent the check has ended
\* the process with status 1
C5_ExitedAtCheck ==
    /\ variant = "https"
    /\ certExists /\ ~keyExists
    /\ pc = "exited"
    /\ endedBy = [exc |-> "SystemExit", at |-> "certcheck"]
    /\ exitStatus = 1

\* C7: no failure of the lookup or of a termination attempt leaves
\* kill_process_on_port as an exception: the process never ends inside the
\* reclaimer by anything but an interrupt, so the caller goes on to bind.
C7_ReclaimerNeverRaises ==
    (pc = "exited" /\ endedBy.at \in {"lsof", "kill", "fuser"})
        => endedBy.exc = "KeyboardInterrupt"

\* C7 witness: the lookup ran, one process was signalled, a later kill
\* failed, the fallback utility was absent, and the reclaimer has returned
\* to its caller, which is about to bind
C7_ReturnedAfterFailures ==
    /\ pc = "bind"
    /\ lookup.st = "ran"
    /\ signalled # {}
    /\ fuser = "absent"
    /\ ~interrupted

\* C8 (as stated): an interrupt at any point of the lifecycle ends the
\* process with exit status zero.
C8_InterruptExitsZero ==
    (pc = "exited" /\ (endedBy.exc = "KeyboardInterrupt" \/ endedBy.at = "stopped"))
        => exitStatus = 0

\* the lookup ran, exited with 0 and printed process identifiers only
FoundPids ==
    /\ lookup.st = "ran"
    /\ lookup.rc = 0
    /\ lookup.out # <<>>
    /\ \A i \in 1..Len(lookup.out) : lookup.out[i] # JUNK

\* C10 (as stated): when the lookup has found a set of process identifiers,
\* the reclaimer returns with SIGTERM sent to every one of them, a failed
\* signal skipping none of the others, and the fallback utility is not
\* reached after that lookup. (Which processes the lookup names is the
\* utility's own business and is not part of this statement.)
C10_SignalsAllAndNoFallbackAfterLookup ==
    FoundPids =>
        /\ (pc = "bind" /\ ~interrupted)
              => \A i \in 1..Len(lookup.out) : lookup.out[i] \in signalled
        /\ pc # "fuser"

====
